---- MODULE Spec2Model ----
(***************************************************************************)
(* The to-do list backend of src/main.go: the gin handlers over the two    *)
(* MongoDB collections "users" and "todos".                                *)
(*                                                                         *)
(* A Go string is a sequence of one-character strings, so that trimming    *)
(* and lower-casing are computed character by character.  The store is a   *)
(* healthy MongoDB: its operations answer, so the handlers' branches for a *)
(* driver error are taken only where a lookup finds no document.           *)
(***************************************************************************)
EXTENDS Naturals, Sequences, FiniteSets, Bags, TLC

(***************************************************************************)
(* Bounds of the model.                                                    *)
(***************************************************************************)
\* Handlers that may be between two store operations at the same time.
MaxInFlight == 2
\* Documents inserted in one run, Users and Todos together.
MaxDocs == 3

(***************************************************************************)
(* Strings.                                                                *)
(***************************************************************************)
UpperCase == <<"A","B","C","D","E","F","G","H","I","J","K","L","M",
               "N","O","P","Q","R","S","T","U","V","W","X","Y","Z">>
LowerCase == <<"a","b","c","d","e","f","g","h","i","j","k","l","m",
               "n","o","p","q","r","s","t","u","v","w","x","y","z">>

\* The lower-case letter of each upper-case letter.
LowerOf == [c \in {UpperCase[i] : i \in 1..26} |->
                LowerCase[CHOOSE i \in 1..26 : UpperCase[i] = c]]

\* unicode.IsSpace on the characters the inputs use.
IsSpace(c) == c \in {" ", "\t", "\n", "\r", "\f"}

\* strings.ToLower, one character.
ToLowerChar(c) == IF c \in DOMAIN LowerOf THEN LowerOf[c] ELSE c

ToLower(s) == [i \in 1..Len(s) |-> ToLowerChar(s[i])]

\* strings.TrimSpace: drop the leading and the trailing white space.
RECURSIVE TrimLeft(_)
TrimLeft(s) ==
    IF s # <<>> /\ IsSpace(Head(s)) THEN TrimLeft(Tail(s)) ELSE s

RECURSIVE TrimRight(_)
TrimRight(s) ==
    IF s # <<>> /\ IsSpace(s[Len(s)])
    THEN TrimRight(SubSeq(s, 1, Len(s) - 1))
    ELSE s

TrimSpace(s) == TrimRight(TrimLeft(s))

\* normalizeEmail without the lower-casing.
normalizeEmailNoLower(email) == TrimSpace(email)

normalizeEmail(email) == ToLower(TrimSpace(email))

\* normalizeText without the trimming.
normalizeTextNoTrim(s) == s

normalizeText(s) == TrimSpace(s)

(***************************************************************************)
(* ObjectIDs.  An ObjectID is 12 bytes, modelled by the number they spell; *)
(* its hex form is 24 hex digits, lower case.                              *)
(***************************************************************************)
HexLen == 24
HexDigits == <<"0","1","2","3","4","5","6","7","8","9","a","b","c","d","e","f">>

\* The value of each hex digit, in either case.
HexValue == [c \in {HexDigits[i] : i \in 1..16} \cup {"A","B","C","D","E","F"} |->
                (CHOOSE i \in 1..16 : HexDigits[i] = ToLowerChar(c)) - 1]

IsHexDigit(c) == c \in DOMAIN HexValue

\* The number the first n hex digits of s spell.
RECURSIVE HexToNat(_, _)
HexToNat(s, n) ==
    IF n = 0 THEN 0 ELSE 16 * HexToNat(s, n - 1) + HexValue[s[n]]

RECURSIVE NatToHex(_, _)
NatToHex(n, width) ==
    IF width = 0 THEN <<>>
    ELSE Append(NatToHex(n \div 16, width - 1), HexDigits[(n % 16) + 1])

\* ObjectID.Hex()
Hex(id) == NatToHex(id, HexLen)

\* primitive.ObjectIDFromHex: [ok, id]
ObjectIDFromHex(s) ==
    IF Len(s) = HexLen /\ \A i \in 1..Len(s) : IsHexDigit(s[i])
    THEN [ok |-> TRUE, id |-> HexToNat(s, Len(s))]
    ELSE [ok |-> FALSE, id |-> 0]

(***************************************************************************)
(* Inputs the clients send.                                                *)
(***************************************************************************)
EmailA    == <<"a","@","b",".","c","o","m">>
EmailAPad == <<"A","@","B",".","C","O","M"," ">>
EmailC    == <<"c","@","d",".","c","o","m">>
Blank     == <<" ">>
Empty     == <<>>

Pw1Pad   == <<" ","p","w","1","\t">>
Pw1Upper == <<"P","W","1">>

TitleMilk == <<"b","u","y"," ","m","i","l","k">>
TitleCar  == <<" ","w","a","s","h"," ","c","a","r"," ">>

Emails    == {EmailA, EmailAPad, EmailC, Blank, Empty}
Passwords == {Pw1Pad, Pw1Upper, Blank, Empty}
Titles    == {TitleMilk, TitleCar, Blank}

\* A request body gin could not bind (not JSON, or a field of the wrong type).
BadJSON == [bad |-> TRUE]

\* {email, password}: a missing field binds to the empty string.
UserBodies ==
    {BadJSON} \cup
    {[bad |-> FALSE, email |-> e, password |-> p] : e \in Emails, p \in Passwords}

\* {email, title}
CreateBodies ==
    {BadJSON} \cup
    {[bad |-> FALSE, email |-> e, title |-> t] : e \in Emails, t \in Titles}

\* A *string or *bool field: <<>> is nil, <<v>> points to v.
Nil == <<>>
Some(v) == <<v>>

\* {title?, completed?}
UpdateBodies ==
    {BadJSON} \cup
    {[bad |-> FALSE, title |-> t, completed |-> c] :
        t \in {Nil} \cup {Some(x) : x \in Titles},
        c \in {Nil, Some(TRUE), Some(FALSE)}}

\* The :id path parameter: the hex of an ObjectID, a string of the wrong
\* length, a string of the right length that is not hex.
IdParams ==
    {Hex(i) : i \in 1..MaxDocs} \cup
    {<<"z","z">>, [i \in 1..HexLen |-> IF i = HexLen THEN "g" ELSE "0"]}

\* The two conversions on the identifiers above, evaluated once.
ParsedIds == [s \in IdParams |-> ObjectIDFromHex(s)]
HexIds == [id \in 0..MaxDocs |-> Hex(id)]

(***************************************************************************)
(* State.                                                                  *)
(***************************************************************************)
VARIABLES
    users,      \* userCollection: a bag of User documents
    todos,      \* todoCollection: the set of Todo documents, keyed by id
    nextId,     \* the next ObjectID the driver generates
    now,        \* the clock time.Now() reads
    docs,       \* documents inserted so far
    inflight,   \* handlers between two store operations, with their locals
    last,       \* the response written and not yet read by its client
    prev        \* the response read before it, kept when it was a 201 of /register

vars == <<users, todos, nextId, now, docs, inflight, last, prev>>

NoResp == [op |-> "none"]

\* c.JSON(status, body)
Resp(op, req, status, body) ==
    [op |-> op, req |-> req, status |-> status, body |-> body]

\* gin.H{"error": msg} and gin.H{"message": msg}; the messages are spelled
\* without their accents.
Error(msg) == [error |-> msg]
Message(msg) == [message |-> msg]

toTodoResponse(todo) ==
    [id        |-> HexIds[todo.id],
     email     |-> todo.email,
     title     |-> todo.title,
     completed |-> todo.completed,
     createdAt |-> todo.createdAt]

Init ==
    /\ users = EmptyBag
    /\ todos = {}
    /\ nextId = 1
    /\ now = 0
    /\ docs = 0
    /\ inflight = EmptyBag
    /\ last = NoResp
    /\ prev = NoResp

\* The handlers in flight that go on to insert a document.
Inserting ==
    BagCardinality([h \in {x \in BagToSet(inflight) : x.op = "registerUser"} |->
                        CopiesIn(h, inflight)])

\* A handler may run: its client has read the previous response.
Ready == last = NoResp

Reply(r) == /\ last' = r
            /\ UNCHANGED prev

(***************************************************************************)
(* Store operations.                                                       *)
(***************************************************************************)
\* userCollection.FindOne({"email": email}): the documents it may decode.
FindUsers(email) == {u \in BagToSet(users) : u.email = email}

\* todoCollection.Find(filter): filter is <<>> (bson.M{}) or <<email>>.
FindTodos(filter) ==
    IF filter = <<>> THEN todos ELSE {t \in todos : t.email = filter[1]}

\* $set that resets the fields the update does not name to their zero values.
SetFieldsReset(todo, update) ==
    [todo EXCEPT
        !.title = IF update.title = Nil THEN <<>> ELSE update.title[1],
        !.completed = IF update.completed = Nil THEN FALSE ELSE update.completed[1]]

\* todoCollection.UpdateByID(id, {"$set": update})
SetFields(todo, update) ==
    [todo EXCEPT
        !.title = IF update.title = Nil THEN @ ELSE update.title[1],
        !.completed = IF update.completed = Nil THEN @ ELSE update.completed[1]]

\* UpdateByID with the upsert option: a missing document is inserted.
UpdateByIDUpsert(id, update) ==
    IF \E t \in todos : t.id = id
    THEN {IF t.id = id THEN SetFields(t, update) ELSE t : t \in todos}
    ELSE todos \cup
         {SetFields([id |-> id, email |-> <<>>, title |-> <<>>,
                     completed |-> FALSE, createdAt |-> 0], update)}

UpdateByID(id, update) ==
    {IF t.id = id THEN SetFields(t, update) ELSE t : t \in todos}

(***************************************************************************)
(* POST /register                                                          *)
(***************************************************************************)
registerUser(body) ==
    /\ Ready
    /\ IF body.bad
       THEN /\ Reply(Resp("registerUser", body, 400, Error("Datos invalidos")))
            /\ UNCHANGED <<users, inflight>>
       ELSE LET user == [email    |-> normalizeEmail(body.email),
                         password |-> normalizeText(body.password)]
            IN  IF user.email = <<>> \/ user.password = <<>>
                THEN /\ Reply(Resp("registerUser", body, 400,
                                   Error("Email y contrasena son requeridos")))
                     /\ UNCHANGED <<users, inflight>>
                ELSE IF FindUsers(user.email) # {}
                THEN /\ Reply(Resp("registerUser", body, 409,
                                   Error("Usuario ya existe")))
                     /\ UNCHANGED <<users, inflight>>
                ELSE /\ BagCardinality(inflight) < MaxInFlight
                     /\ docs + Inserting < MaxDocs
                     /\ inflight' = inflight (+) SetToBag(
                            {[op |-> "registerUser", user |-> user]})
                     /\ UNCHANGED <<users, last, prev>>
    /\ UNCHANGED <<todos, nextId, now, docs>>

\* The rest of registerUser after a lookup that found nothing: InsertOne.
registerUserInsert(h) ==
    /\ Ready
    /\ h.op = "registerUser"
    /\ users' = users (+) SetToBag({h.user})
    /\ inflight' = inflight (-) SetToBag({h})
    /\ Reply(Resp("registerUser",
                  [bad |-> FALSE, email |-> h.user.email,
                   password |-> h.user.password],
                  201,
                  Message("Usuario registrado con exito")))
    /\ docs' = docs + 1
    /\ UNCHANGED <<todos, nextId, now>>

(***************************************************************************)
(* POST /login                                                             *)
(***************************************************************************)
loginUser(body) ==
    /\ Ready
    /\ IF body.bad
       THEN Reply(Resp("loginUser", body, 400, Error("Datos invalidos")))
       ELSE LET user == [email    |-> normalizeEmail(body.email),
                         password |-> normalizeText(body.password)]
            IN  IF user.email = <<>> \/ user.password = <<>>
                THEN Reply(Resp("loginUser", body, 400,
                                Error("Email y contrasena son requeridos")))
                ELSE IF FindUsers(user.email) = {}
                THEN Reply(Resp("loginUser", body, 401,
                                Error("Usuario no encontrado")))
                ELSE \E found \in FindUsers(user.email) :
                        IF found.password # user.password
                        THEN Reply(Resp("loginUser", body, 401,
                                        Error("Password incorrecto")))
                        ELSE Reply(Resp("loginUser", body, 200,
                                        Message("Login exitoso")))
    /\ UNCHANGED <<users, todos, nextId, now, docs, inflight>>

(***************************************************************************)
(* GET /users, DELETE /users                                               *)
(***************************************************************************)
listUsers ==
    /\ Ready
    /\ Reply(Resp("listUsers", <<>>, 200, [users |-> users]))
    /\ UNCHANGED <<users, todos, nextId, now, docs, inflight>>

clearUsers ==
    /\ Ready
    /\ users' = EmptyBag
    /\ Reply(Resp("clearUsers", <<>>, 200,
                  Message("Todos los usuarios han sido eliminados")))
    /\ UNCHANGED <<todos, nextId, now, docs, inflight>>

(***************************************************************************)
(* GET /todos                                                              *)
(***************************************************************************)
listTodos(email) ==
    /\ Ready
    /\ LET filter == IF email # <<>> THEN <<normalizeEmail(email)>> ELSE <<>>
       IN  Reply(Resp("listTodos", [email |-> email], 200,
                      [todos |-> {toTodoResponse(t) : t \in FindTodos(filter)}]))
    /\ UNCHANGED <<users, todos, nextId, now, docs, inflight>>

(***************************************************************************)
(* POST /todos                                                             *)
(***************************************************************************)
createTodo(body) ==
    /\ Ready
    /\ IF body.bad
       THEN /\ Reply(Resp("createTodo", body, 400, Error("Datos invalidos")))
            /\ UNCHANGED <<todos, nextId, now, docs>>
       ELSE LET email == normalizeEmail(body.email)
                title == normalizeText(body.title)
            IN  IF email = <<>> \/ title = <<>>
                THEN /\ Reply(Resp("createTodo", body, 400,
                                   Error("Email y titulo son requeridos")))
                     /\ UNCHANGED <<todos, nextId, now, docs>>
                ELSE LET todo == [id        |-> nextId,
                                  email     |-> email,
                                  title     |-> title,
                                  completed |-> FALSE,
                                  createdAt |-> now]
                     IN  /\ docs + Inserting < MaxDocs
                         /\ docs' = docs + 1
                         /\ todos' = todos \cup {todo}
                         /\ nextId' = nextId + 1
                         /\ now' = now + 1
                         /\ Reply(Resp("createTodo", body, 201,
                                       [todo |-> toTodoResponse(todo)]))
    /\ UNCHANGED <<users, inflight>>

(***************************************************************************)
(* PUT /todos/:id                                                          *)
(***************************************************************************)
updateTodo(idHex, body) ==
    /\ Ready
    /\ LET parsed == ParsedIds[idHex]
           req == [id |-> idHex, body |-> body]
       IN  IF ~parsed.ok
           THEN /\ Reply(Resp("updateTodo", req, 400, Error("ID invalido")))
                /\ UNCHANGED <<todos, inflight>>
           ELSE IF body.bad
           THEN /\ Reply(Resp("updateTodo", req, 400, Error("Datos invalidos")))
                /\ UNCHANGED <<todos, inflight>>
           ELSE IF body.title # Nil /\ normalizeText(body.title[1]) = <<>>
           THEN /\ Reply(Resp("updateTodo", req, 400,
                              Error("El titulo no puede estar vacio")))
                /\ UNCHANGED <<todos, inflight>>
           ELSE LET update ==
                       [title |-> IF body.title # Nil
                                  THEN Some(normalizeText(body.title[1]))
                                  ELSE Nil,
                        completed |-> body.completed]
                IN  IF update.title = Nil /\ update.completed = Nil
                    THEN /\ Reply(Resp("updateTodo", req, 400,
                                       Error("Nada para actualizar")))
                         /\ UNCHANGED <<todos, inflight>>
                    ELSE /\ BagCardinality(inflight) < MaxInFlight
                         /\ todos' = UpdateByID(parsed.id, update)
                         /\ inflight' = inflight (+) SetToBag(
                                {[op |-> "updateTodo", objID |-> parsed.id]})
                         /\ UNCHANGED <<last, prev>>
    /\ UNCHANGED <<users, nextId, now, docs>>

\* The rest of updateTodo after the write: FindOne by _id and the response.
updateTodoReread(h) ==
    /\ Ready
    /\ h.op = "updateTodo"
    /\ inflight' = inflight (-) SetToBag({h})
    /\ IF \E t \in todos : t.id = h.objID
       THEN LET updated == CHOOSE t \in todos : t.id = h.objID
            IN  Reply(Resp("updateTodo", [id |-> HexIds[h.objID]], 200,
                           [todo |-> toTodoResponse(updated)]))
       ELSE Reply(Resp("updateTodo", [id |-> HexIds[h.objID]], 500,
                       Error("Error al leer tarea actualizada")))
    /\ UNCHANGED <<users, todos, nextId, now, docs>>

(***************************************************************************)
(* DELETE /todos/:id, DELETE /todos                                        *)
(***************************************************************************)
\* deleteTodo that answers 404 when DeleteOne deleted nothing.
deleteTodoNotFound(idHex) ==
    /\ Ready
    /\ LET parsed == ParsedIds[idHex]
       IN  IF ~parsed.ok
           THEN /\ Reply(Resp("deleteTodo", [id |-> idHex], 400,
                              Error("ID invalido")))
                /\ UNCHANGED todos
           ELSE /\ todos' = {t \in todos : t.id # parsed.id}
                /\ Reply(Resp("deleteTodo", [id |-> idHex],
                              IF \E t \in todos : t.id = parsed.id
                              THEN 200 ELSE 404,
                              Message("Tarea eliminada")))
    /\ UNCHANGED <<users, nextId, now, docs, inflight>>

deleteTodo(idHex) ==
    /\ Ready
    /\ LET parsed == ParsedIds[idHex]
       IN  IF ~parsed.ok
           THEN /\ Reply(Resp("deleteTodo", [id |-> idHex], 400,
                              Error("ID invalido")))
                /\ UNCHANGED todos
           ELSE /\ todos' = {t \in todos : t.id # parsed.id}
                /\ Reply(Resp("deleteTodo", [id |-> idHex], 200,
                              Message("Tarea eliminada")))
    /\ UNCHANGED <<users, nextId, now, docs, inflight>>

\* clearTodos that normalizes its filter as listTodos does.
clearTodosNormalized(email) ==
    /\ Ready
    /\ LET filter == IF email # <<>> THEN <<normalizeEmail(email)>> ELSE <<>>
       IN  todos' = todos \ FindTodos(filter)
    /\ Reply(Resp("clearTodos", [email |-> email], 200,
                  Message("Tareas eliminadas")))
    /\ UNCHANGED <<users, nextId, now, docs, inflight>>

clearTodos(email) ==
    /\ Ready
    /\ LET filter == IF email # <<>> THEN <<email>> ELSE <<>>
       IN  todos' = todos \ FindTodos(filter)
    /\ Reply(Resp("clearTodos", [email |-> email], 200,
                  Message("Tareas eliminadas")))
    /\ UNCHANGED <<users, nextId, now, docs, inflight>>

(***************************************************************************)
(* The client reads the response.                                          *)
(***************************************************************************)
deliver ==
    /\ last # NoResp
    /\ prev' = IF last.op = "registerUser" /\ last.status = 201
               THEN last ELSE NoResp
    /\ last' = NoResp
    /\ UNCHANGED <<users, todos, nextId, now, docs, inflight>>

(***************************************************************************)
(* Specifications.                                                         *)
(***************************************************************************)
\* Requests are handled concurrently: a request may arrive, and its handler
\* run up to its first store operation, whatever the other handlers are doing.
Next ==
    \/ \E body \in UserBodies : registerUser(body)
    \/ \E h \in BagToSet(inflight) : registerUserInsert(h)
    \/ \E body \in UserBodies : loginUser(body)
    \/ listUsers
    \/ clearUsers
    \/ \E email \in Emails : listTodos(email)
    \/ \E body \in CreateBodies : createTodo(body)
    \/ \E idHex \in IdParams, body \in UpdateBodies : updateTodo(idHex, body)
    \/ \E h \in BagToSet(inflight) : updateTodoReread(h)
    \/ \E idHex \in IdParams : deleteTodo(idHex)
    \/ \E email \in Emails : clearTodos(email)
    \/ deliver

Spec == Init /\ [][Next]_vars

\* Requests are handled one after the other: a request arrives when no
\* handler is between two store operations.
Idle == inflight = EmptyBag

NextSeq ==
    \/ Idle /\ \E body \in UserBodies : registerUser(body)
    \/ \E h \in BagToSet(inflight) : registerUserInsert(h)
    \/ Idle /\ \E body \in UserBodies : loginUser(body)
    \/ Idle /\ listUsers
    \/ Idle /\ clearUsers
    \/ Idle /\ \E email \in Emails : listTodos(email)
    \/ Idle /\ \E body \in CreateBodies : createTodo(body)
    \/ Idle /\ \E idHex \in IdParams, body \in UpdateBodies : updateTodo(idHex, body)
    \/ \E h \in BagToSet(inflight) : updateTodoReread(h)
    \/ Idle /\ \E idHex \in IdParams : deleteTodo(idHex)
    \/ Idle /\ \E email \in Emails : clearTodos(email)
    \/ deliver

SpecSeq == Init /\ [][NextSeq]_vars

(***************************************************************************)
(* What the claims speak of.                                               *)
(***************************************************************************)
\* The normalization the specification names: trim, then lower-case.
Normalized(email) == ToLower(TrimSpace(email))
Trimmed(s) == TrimSpace(s)

\* The number of User documents with this email.
CountUsers(email) ==
    BagCardinality([u \in {x \in BagToSet(users) : x.email = email} |->
                        CopiesIn(u, users)])

\* The last two responses are those of two calls of /register with the
\* same normalized email, the first of them a success.
RegisteredTwice ==
    /\ prev.op = "registerUser" /\ prev.status = 201
    /\ last.op = "registerUser" /\ ~last.req.bad
    /\ Normalized(last.req.email) = Normalized(prev.req.email)

\* The second call was refused and the first call's User is as it was.
SecondRefused ==
    /\ last.status = 409
    /\ CountUsers(Normalized(prev.req.email)) = 1
    /\ \A u \in BagToSet(users) :
          u.email = Normalized(prev.req.email) =>
              u.password = Trimmed(prev.req.password)

\* C1 as stated: for non-empty passwords, registering E and then E' with
\* the same normalized email, the second call answers 409, one User holds
\* that email and its password is still trim(P1).
C1_AsStated ==
    (RegisteredTwice /\ last.req.password # <<>>) => SecondRefused

\* C1, amended: the same, for a second password that is non-empty after
\* trimming (a password of white space alone is refused with 400).
C1_SecondRegistrationConflicts ==
    (RegisteredTwice /\ Trimmed(last.req.password) # <<>>) => SecondRefused

\* Two registrations in a row whose emails and passwords differ as sent.
C1_Witness ==
    /\ RegisteredTwice
    /\ last.status = 409
    /\ last.req.email # prev.req.email
    /\ Trimmed(last.req.password) # prev.req.password
    /\ Trimmed(last.req.password) # <<>>

\* C2: in every reachable state, under any interleaving of the handlers,
\* the Users collection holds at most one User per normalized email.
C2_OneUserPerEmail ==
    \A u \in BagToSet(users) : CountUsers(u.email) = 1

\* A handler writes the response of this operation in this step.
Responds(op) == last = NoResp /\ last'.op = op

\* The Users collection holds a User with this email and this password.
HoldsUser(email, password) ==
    \E u \in BagToSet(users) : u.email = email /\ u.password = password

\* C3: for every (E, P) with normalizeEmail(E) and trim(P) non-empty,
\* loginUser(E, P) answers 200 if and only if the Users collection holds a
\* User with email normalizeEmail(E) and password trim(P), and 401
\* otherwise; it leaves Users and Todos as they were.
C3_LoginIffStoredCredentials ==
    [][(/\ Responds("loginUser")
        /\ ~last'.req.bad
        /\ Normalized(last'.req.email) # <<>>
        /\ Trimmed(last'.req.password) # <<>>)
       => /\ last'.status =
                IF HoldsUser(Normalized(last'.req.email),
                             Trimmed(last'.req.password))
                THEN 200 ELSE 401
          /\ users' = users
          /\ todos' = todos]_vars

\* The :id parameters that are the 24 hex digits of an ObjectID.
WellFormed ==
    [idHex \in IdParams |->
        Len(idHex) = HexLen /\ \A i \in 1..Len(idHex) : IsHexDigit(idHex[i])]

\* The identifiers each :id parameter spells, in either case of the letters.
SpelledBy ==
    [idHex \in IdParams |->
        IF WellFormed[idHex]
        THEN {id \in 0..MaxDocs : Hex(id) = ToLower(idHex)}
        ELSE {}]

\* The Todos whose identifier this parameter spells.
TodosWithId(S, idHex) == {t \in S : t.id \in SpelledBy[idHex]}

\* C4: createTodo with a title empty after trimming, or an email empty
\* after trim and lower-case, answers 400 and leaves Todos as it was;
\* otherwise it adds exactly one Todo, with the normalized email, the
\* trimmed title, completed = false and an identifier no stored Todo has.
C4_CreateValidatesThenAddsOne ==
    [][(Responds("createTodo") /\ ~last'.req.bad)
       => LET email == Normalized(last'.req.email)
              title == Trimmed(last'.req.title)
          IN  IF email = <<>> \/ title = <<>>
              THEN last'.status = 400 /\ todos' = todos
              ELSE \E t \in todos' :
                      /\ todos' = todos \cup {t}
                      /\ t \notin todos
                      /\ t.email = email
                      /\ t.title = title
                      /\ t.completed = FALSE
                      /\ \A o \in todos : o.id # t.id]_vars

\* A Todo was added to a non-empty collection from a padded title and a
\* padded, mixed-case email.
C4_Witness ==
    /\ last.op = "createTodo" /\ last.status = 201
    /\ Cardinality(todos) >= 2
    /\ last.req.title # Trimmed(last.req.title)
    /\ last.req.email # Normalized(last.req.email)
    /\ \E t \in todos : /\ toTodoResponse(t) = last.body.todo
                        /\ t.title = Trimmed(last.req.title)

\* C5: listTodos with a non-empty email F returns exactly the stored Todos
\* whose email is normalizeEmail(F), with no email it returns every Todo,
\* and it changes neither collection.
C5_ListFiltersByNormalizedEmail ==
    [][Responds("listTodos")
       => LET F == last'.req.email
              expected == IF F = <<>> THEN todos
                          ELSE {t \in todos : t.email = Normalized(F)}
          IN  /\ last'.status = 200
              /\ last'.body.todos = {toTodoResponse(t) : t \in expected}
              /\ todos' = todos
              /\ users' = users]_vars

\* A list by "A@B.COM " returned the Todo stored with "a@b.com" and left
\* out the Todo of another owner.
C5_Witness ==
    /\ last.op = "listTodos" /\ last.req.email = EmailAPad
    /\ \E t \in todos : /\ t.email = EmailA
                        /\ toTodoResponse(t) \in last.body.todos
    /\ \E t \in todos : /\ t.email = EmailC
                        /\ toTodoResponse(t) \notin last.body.todos

\* The body supplies neither title nor completed.
NothingSupplied(body) ==
    ~body.bad /\ body.title = Nil /\ body.completed = Nil

\* The body supplies a title that is empty after trimming.
EmptyTitle(body) ==
    ~body.bad /\ body.title # Nil /\ Trimmed(body.title[1]) = <<>>

\* The request is one updateTodo must refuse.
Rejected(idHex, body) ==
    ~WellFormed[idHex] \/ NothingSupplied(body) \/ EmptyTitle(body)

\* An updateTodo handler has just sent its write to the store.
UpdateStarted ==
    \E h \in BagToSet(inflight') :
        h.op = "updateTodo" /\ CopiesIn(h, inflight') > CopiesIn(h, inflight)

\* The Todo after the supplied fields of the body are written over it.
Written(t, body) ==
    [t EXCEPT
        !.title = IF body.title = Nil THEN @ ELSE Trimmed(body.title[1]),
        !.completed = IF body.completed = Nil THEN @ ELSE body.completed[1]]

\* updateTodo has answered after its re-read.
UpdateAnswers == Responds("updateTodo") /\ last'.status # 400

\* C6: the write of updateTodo(id, body) sets the trimmed title when a
\* title is supplied and completed when it is supplied, on the Todo with
\* that id only, keeping its id, email and createdAt; every other Todo and
\* every User is unchanged, and the projection returned with 200 is the
\* stored Todo after the write.
C6_UpdateWritesOnlySuppliedFields ==
    [][/\ UpdateStarted
            => /\ users' = users
               /\ \A idHex \in IdParams, body \in UpdateBodies :
                     updateTodo(idHex, body)
                     => todos' = {IF t \in TodosWithId(todos, idHex)
                                  THEN Written(t, body) ELSE t : t \in todos}
       /\ (UpdateAnswers /\ last'.status = 200)
            => /\ \E t \in TodosWithId(todos', last'.req.id) :
                      last'.body.todo = toTodoResponse(t)
               /\ todos' = todos
               /\ users' = users]_vars

\* An update answered 200 with a completed Todo next to another Todo and
\* a User.
C6_Witness ==
    /\ last.op = "updateTodo" /\ last.status = 200
    /\ last.body.todo.completed
    /\ \E t \in todos : toTodoResponse(t) = last.body.todo
    /\ \E t \in todos : ~t.completed
    /\ users # EmptyBag

\* C7: updateTodo answers 400 and writes nothing when the id is malformed
\* (whatever the body is), when the body supplies neither field, or when
\* the supplied title is empty after trimming, also when completed is
\* supplied with it: no such request reaches the write, and an updateTodo
\* that answers before the write answers 400 with the store as it was.
C7_UpdateRejectsWithoutWriting ==
    [][/\ UpdateStarted
            => \A idHex \in IdParams, body \in UpdateBodies :
                  updateTodo(idHex, body) => ~Rejected(idHex, body)
       /\ (Responds("updateTodo") /\ inflight' = inflight)
            => /\ last'.status = 400
               /\ ~WellFormed[last'.req.id]
                    => last'.body = Error("ID invalido")
               /\ todos' = todos
               /\ users' = users]_vars

\* An update of a stored, not completed Todo with a blank title and
\* completed = true was answered 400.
C7_Witness ==
    /\ last.op = "updateTodo" /\ last.status = 400
    /\ ~last.req.body.bad
    /\ EmptyTitle(last.req.body)
    /\ last.req.body.completed = Some(TRUE)
    /\ \E t \in TodosWithId(todos, last.req.id) : ~t.completed

\* C8: deleteTodo with a malformed id answers 400 and changes nothing;
\* with a well-formed id it answers 200 and leaves the store without a
\* Todo of that id and otherwise as it was, whether or not one existed.
C8_DeleteIsIdempotent ==
    [][Responds("deleteTodo")
       => /\ IF WellFormed[last'.req.id]
             THEN /\ last'.status = 200
                  /\ last'.body = Message("Tarea eliminada")
                  /\ todos' = todos \ TodosWithId(todos, last'.req.id)
             ELSE /\ last'.status = 400
                  /\ todos' = todos
          /\ users' = users]_vars

\* A delete of an identifier that was handed out and is no longer stored
\* answered 200 on a store that was already without it.
C8_Witness ==
    /\ last.op = "deleteTodo" /\ last.status = 200
    /\ ParsedIds[last.req.id].id < nextId
    /\ TodosWithId(todos, last.req.id) = {}
    /\ Cardinality(todos) = nextId - 2
    /\ todos # {}

\* C9: when the re-read of updateTodo finds no Todo with the id, the
\* handler answers 500 and no Todo with that id is stored afterwards;
\* the write of updateTodo never adds or removes an identifier.
C9_UpdateNeverCreates ==
    [][/\ UpdateAnswers
            => IF TodosWithId(todos, last'.req.id) = {}
               THEN /\ last'.status = 500
                    /\ TodosWithId(todos', last'.req.id) = {}
               ELSE last'.status = 200
       /\ UpdateStarted
            => {t.id : t \in todos'} = {t.id : t \in todos}]_vars

\* An update of an identifier that was handed out answered 500 while
\* another handler was still in flight.
C9_Witness ==
    /\ last.op = "updateTodo" /\ last.status = 500
    /\ ParsedIds[last.req.id].id < nextId
    /\ TodosWithId(todos, last.req.id) = {}
    /\ inflight # EmptyBag

\* C10: clearTodos with a non-empty email F deletes exactly the Todos
\* whose stored email is F as given, with no email it deletes every Todo,
\* and it leaves Users alone; clearUsers deletes every User and leaves
\* Todos alone.
C10_ClearFiltersByRawEmail ==
    [][/\ Responds("clearTodos")
            => LET F == last'.req.email
               IN  /\ last'.status = 200
                   /\ todos' = IF F = <<>> THEN {}
                               ELSE {t \in todos : t.email # F}
                   /\ users' = users
       /\ Responds("clearUsers")
            => /\ last'.status = 200
               /\ users' = EmptyBag
               /\ todos' = todos]_vars

\* clearTodos with "A@B.COM " answered 200 and the Todo stored with
\* "a@b.com" is still there, next to a User.
C10_Witness ==
    /\ last.op = "clearTodos" /\ last.status = 200
    /\ last.req.email = EmailAPad
    /\ \E t \in todos : t.email = EmailA
    /\ users # EmptyBag

\* C11: in every reachable state, under any interleaving of the handlers,
\* every stored User has a non-empty email equal to its own trimmed,
\* lower-cased form and a non-empty password equal to its own trim, and
\* every stored Todo has a non-empty email equal to its own normalization
\* and a non-empty title equal to its own trim.
C11_StoredFieldsNormalized ==
    /\ \A u \in BagToSet(users) :
          /\ u.email # <<>> /\ u.email = Normalized(u.email)
          /\ u.password # <<>> /\ u.password = Trimmed(u.password)
    /\ \A t \in todos :
          /\ t.email # <<>> /\ t.email = Normalized(t.email)
          /\ t.title # <<>> /\ t.title = Trimmed(t.title)

\* A User registered with a padded password and a Todo whose title was
\* sent padded are stored, an update that set this title has answered 200
\* and another handler is still in flight.
C11_Witness ==
    /\ \E u \in BagToSet(users) : u.password = Trimmed(Pw1Pad)
    /\ \E t \in todos : /\ t.title = Trimmed(TitleCar)
                        /\ t.email = Normalized(EmailAPad)
    /\ last.op = "updateTodo" /\ last.status = 200
    /\ last.body.todo.title = Trimmed(TitleCar)
    /\ inflight # EmptyBag

====
